---- MODULE Spec2Model ----
(***************************************************************************)
(* Model of src/extract_pdf.py, the PBEV table extractor: cell cleaning,   *)
(* row classification, row-to-record mapping, derived columns,             *)
(* deduplication, sorting and the main pipeline.                           *)
(*                                                                         *)
(* A Python str is a sequence of one-character strings; None, str and      *)
(* float values are tagged records, so that values of different Python     *)
(* types can be compared.  A float is an exact decimal, held as an integer *)
(* number of 1/Scale units.                                                *)
(***************************************************************************)
EXTENDS Integers, Sequences, FiniteSets, TLC

VARIABLES pc, pdf_existe, documento, linhas, registros, df, saida, exit_code,
          chamada, arg, res

vars == <<pc, pdf_existe, documento, linhas, registros, df, saida, exit_code,
          chamada, arg, res>>

\* ------------------------------------------------------------------------
\* Bounds
\* ------------------------------------------------------------------------
\* longest cell text enumerated for limpar and para_numero
MaxLen == 4
\* most rows in an input document
MaxLinhas == 3
\* consumption figures tried: up to this many tenths of km/l by tenths,
\* and up to this many halves of km/l by halves
MaxDecimos == 32
\* largest CO2 figure tried, in g/km
MaxCO2 == 1001

\* ------------------------------------------------------------------------
\* Values
\* ------------------------------------------------------------------------
None == [k |-> "none"]
Str(s) == [k |-> "str", v |-> s]
Num(n) == [k |-> "num", v |-> n]
Bool(b) == [k |-> "bool", v |-> b]
\* an exception that left a call uncaught
Raise(e) == [k |-> "exc", v |-> e]

\* decimal digits a float keeps after the point
FracDigits == MaxLen - 1

RECURSIVE Pow10(_)
Pow10(n) == IF n = 0 THEN 1 ELSE 10 * Pow10(n - 1)

Scale == Pow10(FracDigits)

\* ------------------------------------------------------------------------
\* Characters and the str methods the script uses
\* ------------------------------------------------------------------------
\* the characters of the model in code-point order
CHARS == <<
    "\n", " ", "'", "(", ")", "+", ",", "-", ".", "/", "0", "1",
    "2", "3", "4", "5", "6", "7", "8", "9", "A", "B", "C", "D",
    "E", "F", "G", "H", "I", "K", "L", "M", "N", "O", "P", "Q",
    "R", "S", "T", "U", "V", "W", "X", "Y", "\\", "a", "b", "c",
    "d", "e", "f", "g", "h", "i", "k", "l", "m", "n", "o", "p",
    "q", "r", "s", "t", "u", "v", "w", "x", "y", "Á", "Â", "Ã",
    "Ç", "É", "Í", "Ó", "Õ", "á", "â", "ã", "ç", "é", "í", "ó",
    "õ" >>

\* CHARS[i].lower()
LOWER == <<
    "\n", " ", "'", "(", ")", "+", ",", "-", ".", "/", "0", "1",
    "2", "3", "4", "5", "6", "7", "8", "9", "a", "b", "c", "d",
    "e", "f", "g", "h", "i", "k", "l", "m", "n", "o", "p", "q",
    "r", "s", "t", "u", "v", "w", "x", "y", "\\", "a", "b", "c",
    "d", "e", "f", "g", "h", "i", "k", "l", "m", "n", "o", "p",
    "q", "r", "s", "t", "u", "v", "w", "x", "y", "á", "â", "ã",
    "ç", "é", "í", "ó", "õ", "á", "â", "ã", "ç", "é", "í", "ó",
    "õ" >>

\* CHARS[i].upper()
UPPER == <<
    "\n", " ", "'", "(", ")", "+", ",", "-", ".", "/", "0", "1",
    "2", "3", "4", "5", "6", "7", "8", "9", "A", "B", "C", "D",
    "E", "F", "G", "H", "I", "K", "L", "M", "N", "O", "P", "Q",
    "R", "S", "T", "U", "V", "W", "X", "Y", "\\", "A", "B", "C",
    "D", "E", "F", "G", "H", "I", "K", "L", "M", "N", "O", "P",
    "Q", "R", "S", "T", "U", "V", "W", "X", "Y", "Á", "Â", "Ã",
    "Ç", "É", "Í", "Ó", "Õ", "Á", "Â", "Ã", "Ç", "É", "Í", "Ó",
    "Õ" >>

\* the rank of each character in CHARS
Ordem == [c \in {CHARS[i] : i \in 1..Len(CHARS)} |->
             CHOOSE i \in 1..Len(CHARS) : CHARS[i] = c]

Ord(c) == Ordem[c]

DIGITS == <<"0", "1", "2", "3", "4", "5", "6", "7", "8", "9">>

IsDigit(c) == \E i \in 1..10 : DIGITS[i] = c

DigitVal(c) == (CHOOSE i \in 1..10 : DIGITS[i] = c) - 1

Whitespace == {" ", "\n", "\t"}

lower(s) == [i \in 1..Len(s) |-> LOWER[Ord(s[i])]]

upper(s) == [i \in 1..Len(s) |-> UPPER[Ord(s[i])]]

strip(s) ==
    LET keep == {i \in 1..Len(s) : s[i] \notin Whitespace}
    IN IF keep = {} THEN <<>>
       ELSE SubSeq(s, CHOOSE i \in keep : \A j \in keep : i <= j,
                      CHOOSE i \in keep : \A j \in keep : j <= i)

\* s.replace(a, b) for one-character a and b
replace(s, a, b) == [i \in 1..Len(s) |-> IF s[i] = a THEN b ELSE s[i]]

\* sub in s
Contains(sub, s) ==
    \/ sub = <<>>
    \/ \E i \in 1..(Len(s) - Len(sub) + 1) :
           /\ s[i] = sub[1]
           /\ \A j \in 2..Len(sub) : s[i + j - 1] = sub[j]

\* ' '.join(parts)
RECURSIVE join(_)
join(parts) ==
    IF parts = <<>> THEN <<>>
    ELSE IF Len(parts) = 1 THEN parts[1]
    ELSE parts[1] \o <<" ">> \o join(Tail(parts))

\* s < t in Python's str ordering (code points, a proper prefix first)
RECURSIVE StrLess(_, _)
StrLess(s, t) ==
    IF t = <<>> THEN FALSE
    ELSE IF s = <<>> THEN TRUE
    ELSE IF s[1] = t[1] THEN StrLess(Tail(s), Tail(t))
    ELSE Ord(s[1]) < Ord(t[1])

\* ------------------------------------------------------------------------
\* Cell cleaning
\* ------------------------------------------------------------------------
\* the tuple limpar tests its cleaned text against
PLACEHOLDERS ==
    { <<>>, <<"\\">>, <<"-">>, <<"\\", "\\">>, <<"\\", "\\", "'">>, <<"N", "D">>, <<"N", ".", "A", ".">>, <<"N", "/", "A">>, <<"-", "-">> }

limpar_contido(val) ==
    IF val = None THEN None
    ELSE LET v == replace(strip(val.v), "\n", " ")
         IN IF \E p \in PLACEHOLDERS : Contains(p, v) THEN None ELSE Str(v)

limpar_sem_strip(val) ==
    IF val = None THEN None
    ELSE LET v == replace(val.v, "\n", " ")
         IN IF v \in PLACEHOLDERS THEN None ELSE Str(v)

limpar(val) ==
    IF val = None THEN None
    ELSE LET v == replace(strip(val.v), "\n", " ")
         IN IF v \in PLACEHOLDERS THEN None ELSE Str(v)

\* value of a digit string, most significant digit first
RECURSIVE DigitsVal(_)
DigitsVal(s) ==
    IF s = <<>> THEN 0 ELSE 10 * DigitsVal(SubSeq(s, 1, Len(s) - 1)) + DigitVal(s[Len(s)])

\* float(s) on a str of signs, digits, points and other characters:
\* [sign] digits [. digits] with at least one digit, surrounding whitespace
\* ignored; anything else is a ValueError
float(s) ==
    LET t == strip(s)
        signed == t # <<>> /\ t[1] \in {"+", "-"}
        body == IF signed THEN Tail(t) ELSE t
        points == {i \in 1..Len(body) : body[i] = "."}
        ok == /\ \A i \in 1..Len(body) : IsDigit(body[i]) \/ body[i] = "."
              /\ Cardinality(points) <= 1
              /\ \E i \in 1..Len(body) : IsDigit(body[i])
        p == IF points = {} THEN Len(body) + 1 ELSE CHOOSE i \in points : TRUE
        int == SubSeq(body, 1, p - 1)
        frac == SubSeq(body, p + 1, Len(body))
        mag == DigitsVal(int) * Scale + DigitsVal(frac) * Pow10(FracDigits - Len(frac))
    IN IF ~ok THEN Raise("ValueError")
       ELSE Num(IF signed /\ t[1] = "-" THEN 0 - mag ELSE mag)

para_numero_sem_except(val) ==
    LET v == limpar(val)
    IN IF v = None THEN None ELSE float(replace(v.v, ",", "."))

para_numero_sem_virgula(val) ==
    LET v == limpar(val)
    IN IF v = None THEN None
       ELSE LET r == float(v.v)
            IN IF r.k = "exc" THEN None ELSE r

para_numero(val) ==
    LET v == limpar(val)
    IN IF v = None THEN None
       ELSE LET r == float(replace(v.v, ",", "."))
            IN IF r.k = "exc" THEN None ELSE r

\* ------------------------------------------------------------------------
\* Column schema
\* ------------------------------------------------------------------------
\* (the greater-or-equal sign of name 13 is written >=)
COLUNAS_PDF ==
    LET nomes == <<
        "Categoria",
        "Marca",
        "Modelo",
        "Versão",
        "Motor",
        "Tipo de Propulsão (Combustão / Híbrido / Plug-in / Elétrico)",
        "Transmissão e Velocidades (Manual=M / Automática=A / Dupla Embreagem=DCT / Automatizada=MTA / Contínua=CVT)",
        "Ar Condicionado (S=Sim / N=Não)",
        "Direção Assistida (H=Hidráulica / M=Mecânica / E=Elétrica / E-H=Eletro-hidráulica)",
        "Combustível (E=Elétrico / G=Gasolina / F=Flex / D=Diesel)",
        "Emissões Poluentes - NMOG+NOx (mg/km)",
        "Emissões Poluentes - CO (mg/km)",
        "Emissões Poluentes - CHO Aldeídos (mg/km)",
        "Emissões Poluentes - Redução Relativa ao Limite (A=>=40% abaixo PROCONVE L7 / B=<40%)",
        "Emissões GEE - CO2 Fóssil Etanol (g/km)",
        "Emissões GEE - CO2 Fóssil Gasolina ou Diesel (g/km)",
        "Emissões GEE - CO2e Fóssil VEHP Plug-in (g/km)",
        "Consumo Etanol - Cidade (km/l)",
        "Consumo Etanol - Estrada (km/l)",
        "Consumo Gasolina ou Diesel - Cidade (km/l)",
        "Consumo Gasolina ou Diesel - Estrada (km/l)",
        "Consumo Elétrico - Cidade (km/le)",
        "Consumo Elétrico - Estrada (km/le)",
        "Consumo Energético (MJ/km)",
        "Autonomia Modo Elétrico (km)",
        "Classificação PBE - Relativa na Categoria (A=Mais Eficiente / B / C / D / E=Menos Eficiente)",
        "Classificação PBE - Absoluta Geral (A=Mais Eficiente / B / C / D / E=Menos Eficiente)",
        "Selo CONPET de Eficiência Energética (SIM / NÃO)" >>
    IN [idx \in 0..(Len(nomes) - 1) |-> nomes[idx + 1]]

COLUNAS_NUMERICAS == {10, 11, 12, 14, 15, 16, 17, 18, 19, 20, 21, 22, 23, 24}

CATEGORIAS == <<
    <<"s", "u", "b", " ", "c", "o", "m", "p", "a", "c", "t", "o">>, <<"c", "o", "m", "p", "a", "c", "t", "o">>, <<"m", "é", "d", "i", "o">>, <<"g", "r", "a", "n", "d", "e">>, <<"e", "x", "t", "r", "a", " ", "g", "r", "a", "n", "d", "e">>,
    <<"u", "t", "i", "l", "i", "t", "á", "r", "i", "o", " ", "e", "s", "p", "o", "r", "t", "i", "v", "o", " ", "c", "o", "m", "p", "a", "c", "t", "o">>, <<"u", "t", "i", "l", "i", "t", "á", "r", "i", "o", " ", "e", "s", "p", "o", "r", "t", "i", "v", "o", " ", "g", "r", "a", "n", "d", "e">>,
    <<"u", "t", "i", "l", "i", "t", "á", "r", "i", "o", " ", "e", "s", "p", "o", "r", "t", "i", "v", "o", " ", "g", "r", "a", "n", "d", "e", " ", "4", "x", "4">>, <<"f", "o", "r", "a", " ", "d", "e", " ", "e", "s", "t", "r", "a", "d", "a", " ", "c", "o", "m", "p", "a", "c", "t", "o">>,
    <<"f", "o", "r", "a", " ", "d", "e", " ", "e", "s", "t", "r", "a", "d", "a", " ", "g", "r", "a", "n", "d", "e">>, <<"m", "i", "n", "i", "v", "a", "n">>, <<"c", "o", "m", "e", "r", "c", "i", "a", "l">>,
    <<"p", "i", "c", "a", "p", "e", " ", "c", "o", "m", "p", "a", "c", "t", "a">>, <<"p", "i", "c", "a", "p", "e">>, <<"e", "s", "p", "o", "r", "t", "i", "v", "o">> >>

\* the keyword list of eh_cabecalho
PALAVRAS_CABECALHO == <<
    <<"c", "a", "t", "e", "g", "o", "r", "i", "a">>, <<"m", "a", "r", "c", "a">>, <<"m", "o", "d", "e", "l", "o">>, <<"v", "e", "r", "s", "ã", "o">>, <<"m", "o", "t", "o", "r">>, <<"t", "r", "a", "n", "s", "m", "i", "s", "s", "ã", "o">>,
    <<"c", "o", "m", "b", "u", "s", "t", "í", "v", "e", "l">>, <<"p", "o", "l", "u", "e", "n", "t", "e", "s">>, <<"q", "u", "i", "l", "o", "m", "e", "t", "r", "a", "g", "e", "m">>, <<"e", "m", "i", "s", "s", "õ", "e", "s">>,
    <<"c", "l", "a", "s", "s", "i", "f", "i", "c", "a", "ç", "ã", "o">>, <<"p", "r", "o", "g", "r", "a", "m", "a", " ", "b", "r", "a", "s", "i", "l", "e", "i", "r", "o">>, <<"h", "i", "d", "r", "á", "u", "l", "i", "c", "a">>, <<"m", "e", "c", "â", "n", "i", "c", "a">>,
    <<"e", "l", "e", "t", "r", "o", "-", "h", "i", "d", "r", "á", "u", "l", "i", "c", "a">>, <<"m", "a", "n", "u", "a", "l", " ", "(", "m", ")">>, <<"a", "u", "t", "o", "m", "á", "t", "i", "c", "a">>, <<"n", "m", "o", "g", "+", "n", "o", "x">>,
    <<"g", "á", "s", " ", "e", "f", "e", "i", "t", "o">>, <<"c", "o", "n", "s", "u", "m", "o", " ", "e", "n", "e", "r", "g", "é", "t", "i", "c", "o">>, <<"m", "e", "n", "o", "r", "e", "s", " ", "n", "í", "v", "e", "i", "s">>,
    <<"m", "a", "i", "o", "r", "e", "s", " ", "n", "í", "v", "e", "i", "s">>, <<"w", "w", "w", ".">>, <<"i", "n", "m", "e", "t", "r", "o">>, <<"c", "o", "n", "p", "e", "t">>, <<"i", "b", "a", "m", "a">>,
    <<"t", "i", "p", "o", " ", "d", "e">>, <<"p", "r", "o", "p", "u", "l", "s", "ã", "o">>, <<"c", "o", "m", "p", "a", "r", "a", "ç", "ã", "o">>, <<"r", "e", "l", "a", "t", "i", "v", "a">>, <<"a", "b", "s", "o", "l", "u", "t", "a">>,
    <<"a", "u", "t", "o", "n", "o", "m", "i", "a">>, <<"a", "r", "\n", "c", "o", "n", "d">>, <<"d", "i", "r", "e", "ç", "ã", "o">>, <<"f", "ó", "s", "s", "i", "l">>,
    <<"c", "i", "d", "a", "d", "e", "\n", "(", "k", "m">>, <<"e", "s", "t", "r", "a", "d", "a", "\n", "(", "k", "m">>, <<"v", "a", "l", "o", "r", "e", "s", " ", "e", "m", " ", "k", "m">> >>

\* ------------------------------------------------------------------------
\* Row classification and extraction
\* ------------------------------------------------------------------------
\* bool(c) of a cell: neither None nor ''
Truthy(c) == c # None /\ c.v # <<>>

\* [str(c) for c in row if c]
RECURSIVE CelulasNaoVazias(_)
CelulasNaoVazias(row) ==
    IF row = <<>> THEN <<>>
    ELSE (IF Truthy(row[1]) THEN <<row[1].v>> ELSE <<>>) \o CelulasNaoVazias(Tail(row))

eh_cabecalho_primeira_celula(row) ==
    LET texto == lower(join(CelulasNaoVazias(SubSeq(row, 1, 1))))
    IN \E i \in 1..Len(PALAVRAS_CABECALHO) : Contains(PALAVRAS_CABECALHO[i], texto)

eh_cabecalho(row) ==
    LET texto == lower(join(CelulasNaoVazias(row)))
    IN \E i \in 1..Len(PALAVRAS_CABECALHO) : Contains(PALAVRAS_CABECALHO[i], texto)

eh_veiculo(row) ==
    IF row = <<>> \/ ~Truthy(row[1]) THEN FALSE
    ELSE LET celula == lower(strip(row[1].v))
         IN \E i \in 1..Len(CATEGORIAS) : Contains(CATEGORIAS[i], celula)

\* the shortest row extrair keeps
MIN_CELULAS == 25

\* the rows of one table that extrair appends, in row order
RECURSIVE LinhasDaTabela(_)
LinhasDaTabela(table) ==
    IF table = <<>> THEN <<>>
    ELSE LET row == table[1]
         IN (IF row # <<>> /\ Len(row) >= MIN_CELULAS
                /\ ~eh_cabecalho(row) /\ eh_veiculo(row)
             THEN <<row>> ELSE <<>>) \o LinhasDaTabela(Tail(table))

RECURSIVE LinhasDaPagina(_)
LinhasDaPagina(tables) ==
    IF tables = <<>> THEN <<>>
    ELSE LinhasDaTabela(tables[1]) \o LinhasDaPagina(Tail(tables))

RECURSIVE LinhasDasPaginas(_)
LinhasDasPaginas(pages) ==
    IF pages = <<>> THEN <<>>
    ELSE LinhasDaPagina(pages[1]) \o LinhasDasPaginas(Tail(pages))

extrair_sem_cabecalho(pdf) == 
    LET RECURSIVE T(_)
        T(table) == IF table = <<>> THEN <<>>
                    ELSE (IF Len(table[1]) >= MIN_CELULAS /\ eh_veiculo(table[1])
                          THEN <<table[1]>> ELSE <<>>) \o T(Tail(table))
        RECURSIVE P(_)
        P(tables) == IF tables = <<>> THEN <<>> ELSE T(tables[1]) \o P(Tail(tables))
        RECURSIVE D(_)
        D(pages) == IF pages = <<>> THEN <<>> ELSE P(pages[1]) \o D(Tail(pages))
    IN D(pdf)

\* a document is its pages, a page its tables (page.extract_tables()), a
\* table its rows, a row its cells
extrair(pdf) == LinhasDasPaginas(pdf)

\* ------------------------------------------------------------------------
\* Row-to-record mapping
\* ------------------------------------------------------------------------
n_colunas_esperadas ==
    (CHOOSE m \in DOMAIN COLUNAS_PDF : \A j \in DOMAIN COLUNAS_PDF : j <= m) + 1

\* while len(row) < n_colunas_esperadas: row.append(None)
Normalizar(row) ==
    [i \in 1..(IF Len(row) < n_colunas_esperadas THEN n_colunas_esperadas ELSE Len(row))
        |-> IF i <= Len(row) THEN row[i] ELSE None]

\* the column index of a field name
Indice(nome) == CHOOSE idx \in DOMAIN COLUNAS_PDF : COLUNAS_PDF[idx] = nome

Campos == {COLUNAS_PDF[idx] : idx \in DOMAIN COLUNAS_PDF}

Registro_sem_numeros(row) ==
    LET r == Normalizar(row)
    IN [nome \in Campos |-> limpar(r[Indice(nome) + 1])]

\* the dict parsear builds from one row
Registro(row) ==
    LET r == Normalizar(row)
    IN [nome \in Campos |->
           IF Indice(nome) \in COLUNAS_NUMERICAS
           THEN para_numero(r[Indice(nome) + 1])
           ELSE limpar(r[Indice(nome) + 1])]

\* bool(v) of a cleaned value
TemValor(v) == v # None /\ (v.k = "str" => v.v # <<>>)

parsear_sem_filtro(rows) ==
    [i \in 1..Len(rows) |-> Registro(rows[i])]

RECURSIVE parsear(_)
parsear(rows) ==
    IF rows = <<>> THEN <<>>
    ELSE LET registro == Registro(rows[1])
         IN (IF TemValor(registro[COLUNAS_PDF[1]]) THEN <<registro>> ELSE <<>>)
            \o parsear(Tail(rows))

\* the rows of linhas after parsear padded them in place
LinhasNormalizadas(rows) == [i \in 1..Len(rows) |-> Normalizar(rows[i])]

\* ------------------------------------------------------------------------
\* Derived columns
\* ------------------------------------------------------------------------
\* a dict literal as a sequence of <<key, value>> pairs
TemChave(d, key) == \E i \in 1..Len(d) : d[i][1] = key

Valor(d, key) == d[CHOOSE i \in 1..Len(d) : d[i][1] = key][2]

mapa == <<
    <<<<"c", "o", "m", "b", "u", "s", "t", "ã", "o">>, <<"C", "o", "m", "b", "u", "s", "t", "ã", "o">>>>, <<<<"h", "í", "b", "r", "i", "d", "o">>, <<"H", "í", "b", "r", "i", "d", "o">>>>,
    <<<<"p", "l", "u", "g", "-", "i", "n">>, <<"P", "l", "u", "g", "-", "i", "n">>>>, <<<<"e", "l", "é", "t", "r", "i", "c", "o">>, <<"E", "l", "é", "t", "r", "i", "c", "o">>>>,
    <<<<"h", "i", "b", "r", "i", "d", "o">>, <<"H", "í", "b", "r", "i", "d", "o">>>>, <<<<"e", "l", "e", "t", "r", "i", "c", "o">>, <<"E", "l", "é", "t", "r", "i", "c", "o">>>> >>

mapa_c == <<
    <<<<"E">>, <<"E", "l", "é", "t", "r", "i", "c", "o">>>>, <<<<"G">>, <<"G", "a", "s", "o", "l", "i", "n", "a">>>>,
    <<<<"F">>, <<"F", "l", "e", "x">>>>, <<<<"D">>, <<"D", "i", "e", "s", "e", "l">>>> >>

\* df[col].str.lower().map(mapa).fillna(df[col]) for one value
PropulsaoPadronizada(x) ==
    IF x = None THEN None
    ELSE IF TemChave(mapa, lower(x.v)) THEN Str(Valor(mapa, lower(x.v)))
    ELSE x

\* df[col].map(mapa_c).fillna(df[col]) for one value
CombustivelDescricao(x) ==
    IF x = None THEN None
    ELSE IF TemChave(mapa_c, x.v) THEN Str(Valor(mapa_c, x.v))
    ELSE x

\* re.sub(r'[-\d]', '', str(x)).strip() if pd.notna(x) else None
TransmissaoTipo(x) ==
    IF x = None THEN None
    ELSE Str(strip(SelectSeq(x.v, LAMBDA c : c # "-" /\ ~IsDigit(c))))

\* int(re.search(r'(\d+)', str(x)).group(1)) if there is a digit, else None
TransmissaoVelocidades(x) ==
    IF x = None \/ ~\E i \in 1..Len(x.v) : IsDigit(x.v[i]) THEN None
    ELSE LET s == x.v
             a == CHOOSE i \in 1..Len(s) :
                      IsDigit(s[i]) /\ \A j \in 1..(i - 1) : ~IsDigit(s[j])
             b == CHOOSE i \in a..Len(s) :
                      /\ \A j \in a..i : IsDigit(s[j])
                      /\ i = Len(s) \/ ~IsDigit(s[i + 1])
         IN Num(DigitsVal(SubSeq(s, a, b)) * Scale)

\* n/d rounded to the nearest integer, a tie to the even one (d > 0)
RoundHalfEven(n, d) ==
    LET q == n \div d
        r == n % d
    IN IF 2 * r < d THEN q
       ELSE IF 2 * r > d THEN q + 1
       ELSE IF q % 2 = 0 THEN q ELSE q + 1

ConsumoCombinado_truncado(cid, est) ==
    IF cid = None \/ est = None THEN None
    ELSE Num(((55 * cid.v + 45 * est.v) \div Scale) * (Scale \div 100))

ConsumoCombinado_zero(cid, est) ==
    LET c == IF cid = None THEN 0 ELSE cid.v
        e == IF est = None THEN 0 ELSE est.v
    IN Num(RoundHalfEven(55 * c + 45 * e, Scale) * (Scale \div 100))

\* (0.55 * cid + 0.45 * est).round(2): NaN when either is NaN; the sum is
\* (55 cid + 45 est) / 100, rounded to hundredths
ConsumoCombinado(cid, est) ==
    IF cid = None \/ est = None THEN None
    ELSE Num(RoundHalfEven(55 * cid.v + 45 * est.v, Scale) * (Scale \div 100))

bins == <<0, 50, 100, 150, 200, 250, 999>>

labels == << <<"0", "-", "5", "0">>, <<"5", "1", "-", "1", "0", "0">>, <<"1", "0", "1", "-", "1", "5", "0">>, <<"1", "5", "1", "-", "2", "0", "0">>, <<"2", "0", "1", "-", "2", "5", "0">>, <<"2", "5", "0", "+">> >>

\* pd.cut(v, bins=bins, labels=labels, include_lowest=True): intervals
\* closed on the right, the first one closed on the left too; NaN outside
FaixaCO2(v) ==
    IF v = None THEN None
    ELSE IF v.v = bins[1] * Scale THEN Str(labels[1])
    ELSE IF \E i \in 1..Len(labels) :
                bins[i] * Scale < v.v /\ v.v <= bins[i + 1] * Scale
         THEN Str(labels[CHOOSE i \in 1..Len(labels) :
                bins[i] * Scale < v.v /\ v.v <= bins[i + 1] * Scale])
    ELSE None

\* str(x) of a cell value
str(x) == IF x = None THEN <<"N", "o", "n", "e">> ELSE x.v

\* 'SIM' if str(x).strip().upper() == 'SIM' else 'NÃO'
Selo(x) == IF upper(strip(str(x))) = <<"S", "I", "M">> THEN Str(<<"S", "I", "M">>) ELSE Str(<<"N", "Ã", "O">>)

col_prop == COLUNAS_PDF[5]
col_trans == COLUNAS_PDF[6]
col_comb == COLUNAS_PDF[9]
col_selo == COLUNAS_PDF[27]
col_co2 == COLUNAS_PDF[15]

\* (city column, highway column, combined column) of each fuel family
pares == <<
    <<COLUNAS_PDF[19], COLUNAS_PDF[20], "Consumo Gasolina ou Diesel - Combinado (km/l)">>,
    <<COLUNAS_PDF[17], COLUNAS_PDF[18], "Consumo Etanol - Combinado (km/l)">>,
    <<COLUNAS_PDF[21], COLUNAS_PDF[22], "Consumo Elétrico - Combinado (km/le)">> >>

\* pos_processar on one row of the frame, the columns in assignment order
PosProcessarRegistro(r) ==
    LET prop == PropulsaoPadronizada(r[col_prop])
    IN [r EXCEPT ![col_prop] = prop, ![col_selo] = Selo(r[col_selo])]
       @@ ("Transmissão - Tipo" :> TransmissaoTipo(r[col_trans]))
       @@ ("Transmissão - Nº Velocidades" :> TransmissaoVelocidades(r[col_trans]))
       @@ ("Combustível - Descrição" :> CombustivelDescricao(r[col_comb]))
       @@ [nome_comb \in {pares[i][3] : i \in 1..Len(pares)} |->
               LET i == CHOOSE i \in 1..Len(pares) : pares[i][3] = nome_comb
               IN ConsumoCombinado(r[pares[i][1]], r[pares[i][2]])]
       @@ ("Faixa CO2 Gasolina/Diesel (g/km)" :> FaixaCO2(r[col_co2]))
       @@ ("Zero Emissão (Elétrico Puro)" :> Bool(prop = Str(<<"E", "l", "é", "t", "r", "i", "c", "o">>)))
       @@ ("Eletrificado (Elétrico/Híbrido/Plug-in)" :>
               Bool(prop \in {Str(<<"E", "l", "é", "t", "r", "i", "c", "o">>), Str(<<"H", "í", "b", "r", "i", "d", "o">>), Str(<<"P", "l", "u", "g", "-", "i", "n">>)}))

pos_processar(frame) == [i \in 1..Len(frame) |-> PosProcessarRegistro(frame[i])]

\* ------------------------------------------------------------------------
\* Deduplication and sorting
\* ------------------------------------------------------------------------
drop_duplicates_adjacentes(frame) ==
    LET kept == SelectSeq([i \in 1..Len(frame) |-> i],
                          LAMBDA i : i = 1 \/ frame[i - 1] # frame[i])
    IN [j \in 1..Len(kept) |-> frame[kept[j]]]

RECURSIVE drop_duplicates(_)
\* keeps the first occurrence of each row
drop_duplicates(frame) ==
    IF frame = <<>> THEN <<>>
    ELSE LET resto == drop_duplicates(SubSeq(frame, 1, Len(frame) - 1))
             ultimo == frame[Len(frame)]
         IN IF \E i \in 1..(Len(frame) - 1) : frame[i] = ultimo
            THEN resto ELSE Append(resto, ultimo)

CHAVE == <<"Categoria", "Marca", "Modelo", "Versão">>

\* a < b in one sort column: str ordering, missing values last
CampoMenor(a, b) ==
    IF a = None THEN FALSE
    ELSE IF b = None THEN TRUE
    ELSE StrLess(a.v, b.v)

RECURSIVE ChaveMenorDesde(_, _, _, _)
ChaveMenorDesde(by, r1, r2, i) ==
    IF i > Len(by) THEN FALSE
    ELSE IF CampoMenor(r1[by[i]], r2[by[i]]) THEN TRUE
    ELSE IF CampoMenor(r2[by[i]], r1[by[i]]) THEN FALSE
    ELSE ChaveMenorDesde(by, r1, r2, i + 1)

\* r1 sorts strictly before r2 on the columns by
ChaveMenor(by, r1, r2) == ChaveMenorDesde(by, r1, r2, 1)

\* r placed after the rows of the sorted frame that do not sort after it
Inserir(by, frame, r) ==
    LET n == Cardinality({i \in 1..Len(frame) : ~ChaveMenor(by, r, frame[i])})
    IN SubSeq(frame, 1, n) \o <<r>> \o SubSeq(frame, n + 1, Len(frame))

RECURSIVE OrdenarPor(_, _)
\* a stable ascending sort on the columns by
OrdenarPor(frame, by) ==
    IF frame = <<>> THEN <<>>
    ELSE Inserir(by, OrdenarPor(SubSeq(frame, 1, Len(frame) - 1), by),
                 frame[Len(frame)])

sort_values_sem_versao(frame, by) == OrdenarPor(frame, SubSeq(by, 1, Len(by) - 1))

\* df.sort_values(by): ascending, missing values last, stable
sort_values(frame, by) == OrdenarPor(frame, by)

\* ------------------------------------------------------------------------
\* Input documents
\* ------------------------------------------------------------------------
\* a complete 28-cell vehicle row of the report
LinhaArgo == <<
    Str(<<"C", "o", "m", "p", "a", "c", "t", "o">>), Str(<<"F", "i", "a", "t">>), Str(<<"A", "r", "g", "o">>), Str(<<"1", ".", "0">>), Str(<<"1", ".", "0", "-", "6", "V">>),
    Str(<<"C", "o", "m", "b", "u", "s", "t", "ã", "o">>), Str(<<"M", "-", "5">>), Str(<<"S">>), Str(<<"E">>), Str(<<"F">>),
    Str(<<"1", "5">>), Str(<<"2", "5", "0">>), Str(<<"1", ",", "2">>), Str(<<"A">>), Str(<<"0">>),
    Str(<<"9", "8">>), Str(<<"\\">>), Str(<<"9", ",", "8">>), Str(<<"1", "1", ",", "0">>), Str(<<"1", "4", ",", "0">>),
    Str(<<"1", "6", ",", "0">>), Str(<<"\\">>), Str(<<"\\">>), Str(<<"1", ",", "4", "5">>), Str(<<"\\">>),
    Str(<<"B">>), Str(<<"B">>), Str(<<"S", "I", "M">>) >>

\* row with cell idx (counted from 0) replaced
Com(row, idx, cell) == [row EXCEPT ![idx + 1] = cell]

\* the same vehicle in another version: one field differs
LinhaArgo13 == Com(LinhaArgo, 3, Str(<<"1", ".", "3">>))

\* a lower-case category, an unaccented powertrain label, no gear count
LinhaOnix ==
    Com(Com(Com(Com(Com(Com(Com(LinhaArgo,
        0, Str(<<"c", "o", "m", "p", "a", "c", "t", "o">>)), 1, Str(<<"C", "h", "e", "v", "r", "o", "l", "e", "t">>)), 2, Str(<<"O", "n", "i", "x">>)),
        3, Str(<<"L", "T">>)), 5, Str(<<"h", "i", "b", "r", "i", "d", "o">>)), 6, Str(<<"C", "V", "T">>)), 27, Str(<<" ", "s", "i", "m">>))

\* the same vehicle with no version given
LinhaArgoSemVersao == Com(LinhaArgo, 3, Str(<<"N", "D">>))

\* the same vehicle with its powertrain label in capitals
LinhaArgoMaiusculas == Com(LinhaArgo, 5, Str(<<"C", "O", "M", "B", "U", "S", "T", "Ã", "O">>))

\* a 25-cell row of the longest category, without a version
LinhaSW4 ==
    SubSeq(Com(Com(Com(Com(Com(Com(LinhaArgo,
        0, Str(<<" ", "U", "t", "i", "l", "i", "t", "á", "r", "i", "o", " ", "E", "s", "p", "o", "r", "t", "i", "v", "o", "\n", "G", "r", "a", "n", "d", "e", " ", "4", "x", "4">>)), 1, Str(<<"T", "o", "y", "o", "t", "a">>)),
        2, Str(<<"S", "W", "4">>)), 3, None), 5, Str(<<"H", "í", "b", "r", "i", "d", "o">>)), 6, Str(<<"A", "-", "6">>)), 1, 25)

\* a vehicle row whose brand is a placeholder
LinhaSemMarca == Com(Com(LinhaArgo, 0, Str(<<"P", "i", "c", "a", "p", "e">>)), 1, Str(<<"-">>))

\* a vehicle row whose brand is blank
LinhaMarcaEmBranco == Com(Com(LinhaArgo, 0, Str(<<"P", "i", "c", "a", "p", "e", " ", "C", "o", "m", "p", "a", "c", "t", "a">>)), 1, Str(<<" ", "\n">>))

\* a valid category in the first cell and a header keyword in another cell
LinhaCategoriaComCabecalho ==
    Com(Com(LinhaArgo, 0, Str(<<"U", "t", "i", "l", "i", "t", "á", "r", "i", "o", " ", "E", "s", "p", "o", "r", "t", "i", "v", "o", " ", "G", "r", "a", "n", "d", "e", " ", "4", "x", "4">>)),
        2, Str(<<"C", "a", "t", "e", "g", "o", "r", "i", "a">>))

\* a header row
LinhaCabecalho ==
    Com(Com(Com(LinhaArgo, 0, Str(<<"C", "a", "t", "e", "g", "o", "r", "i", "a">>)), 1, Str(<<"M", "a", "r", "c", "a">>)), 2, Str(<<"M", "o", "d", "e", "l", "o">>))

\* a vehicle row of 24 cells
LinhaCurta == SubSeq(LinhaArgo, 1, 24)

\* a row whose first cell names no category
LinhaSedan == Com(LinhaArgo, 0, Str(<<"S", "e", "d", "a", "n">>))

\* a row whose first cell is empty
LinhaSemCategoria == Com(LinhaArgo, 0, None)

LinhasPipeline ==
    {LinhaArgo, LinhaArgo13, LinhaArgoMaiusculas, LinhaSW4, LinhaOnix,
     LinhaArgoSemVersao, LinhaSemMarca, LinhaCabecalho}

\* rows that extrair keeps and a row that it drops
LinhasPaginacao == {LinhaArgo, LinhaSW4, LinhaCabecalho}

LinhasExtrair ==
    {LinhaArgo, LinhaSW4, LinhaCategoriaComCabecalho, LinhaCabecalho,
     LinhaCurta, LinhaSedan, LinhaSemCategoria, <<>>}

\* every sequence of at most n elements of S
SeqAte(S, n) == UNION {[1..m -> S] : m \in 0..n}

Cortes == {"linha", "tabela", "pagina"}

RECURSIVE Documento(_, _)
\* the document whose rows are rows, in order; cortes[i] says whether row i
\* continues the table of row i - 1, starts a new table on the same page,
\* or starts a new page (whose first table is empty)
Documento(rows, cortes) ==
    IF rows = <<>> THEN <<>>
    ELSE LET n == Len(rows)
             d == Documento(SubSeq(rows, 1, n - 1), SubSeq(cortes, 1, n - 1))
             np == Len(d)
         IN IF d = <<>> \/ cortes[n] = "pagina"
            THEN Append(d, << <<>>, <<rows[n]>> >>)
            ELSE IF cortes[n] = "tabela"
            THEN [d EXCEPT ![np] = Append(@, <<rows[n]>>)]
            ELSE [d EXCEPT ![np] = [@ EXCEPT ![Len(@)] = Append(@, rows[n])]]

\* rows of S cut into tables and pages in every way
Documentos(S, n) ==
    {Documento(rows, cortes) :
        rows \in [1..n -> S], cortes \in [1..n -> Cortes]}

CortesPadrao(n) ==
    [i \in 1..n |-> IF i % 2 = 1 THEN "pagina"
                    ELSE IF i % 4 = 2 THEN "linha" ELSE "tabela"]

\* rows of S cut into tables and pages in one way
DocumentosPadrao(S, n) ==
    {Documento(rows, CortesPadrao(n)) : rows \in [1..n -> S]}

\* ------------------------------------------------------------------------
\* State
\* ------------------------------------------------------------------------
Pendente == [k |-> "pendente"]

\* no single function is being exercised
SemChamada ==
    /\ chamada = "nenhuma"
    /\ arg = None
    /\ res = Pendente

\* the pipeline's variables while a single function is exercised
PipelineParado ==
    /\ pc = "parado"
    /\ pdf_existe = FALSE
    /\ documento = <<>>
    /\ linhas = <<>>
    /\ registros = <<>>
    /\ df = <<>>
    /\ saida = <<>>
    /\ exit_code = None

\* the characters of a str
Chars(s) == {s[i] : i \in 1..Len(s)}

\* every str of at most n characters of alphabet A
Textos(A, n) == SeqAte(A, n)

AlfabetoLimpar == Chars(<<" ", "\n", "\\", "-", "'", "N", "D", ".", "A", "/", "d">>)

AlfabetoNumero == Chars(<<"0", "1", "2", "3", ",", ".", "-", "+", " ", "\n", "x">>)

\* None and every cell text of at most n characters of alphabet A
Celulas(A, n) == {None} \cup {Str(s) : s \in Textos(A, n)}

\* ------------------------------------------------------------------------
\* main
\* ------------------------------------------------------------------------
Init ==
    /\ pc = "inicio"
    /\ pdf_existe \in BOOLEAN
    /\ documento \in IF pdf_existe
                     THEN UNION {DocumentosPadrao(LinhasPipeline, n) : n \in 0..MaxLinhas}
                     ELSE {<<>>}
    /\ linhas = <<>>
    /\ registros = <<>>
    /\ df = <<>>
    /\ saida = <<>>
    /\ exit_code = None
    /\ SemChamada

VerificarArquivo_sem_teste ==
    /\ pc = "inicio"
    /\ pc' = "extrair"
    /\ UNCHANGED <<pdf_existe, documento, linhas, registros, df, saida,
                   exit_code, chamada, arg, res>>

\* if not os.path.exists(pdf_path): sys.exit(1)
VerificarArquivo ==
    /\ pc = "inicio"
    /\ IF pdf_existe
       THEN pc' = "extrair" /\ UNCHANGED exit_code
       ELSE pc' = "fim" /\ exit_code' = Num(1)
    /\ UNCHANGED <<pdf_existe, documento, linhas, registros, df, saida,
                   chamada, arg, res>>

\* 1. linhas = extrair(pdf_path)
Extrair ==
    /\ pc = "extrair"
    /\ linhas' = extrair(documento)
    /\ pc' = "parsear"
    /\ UNCHANGED <<pdf_existe, documento, registros, df, saida, exit_code,
                   chamada, arg, res>>

\* 2. registros = parsear(linhas), which pads the rows of linhas in place
Parsear ==
    /\ pc = "parsear"
    /\ registros' = parsear(linhas)
    /\ linhas' = LinhasNormalizadas(linhas)
    /\ pc' = "dataframe"
    /\ UNCHANGED <<pdf_existe, documento, df, saida, exit_code,
                   chamada, arg, res>>

\* 3. and 4. df = pd.DataFrame(registros), numeric columns through
\* pd.to_numeric: the floats and missing values of para_numero are kept
MontarDataFrame ==
    /\ pc = "dataframe"
    /\ df' = registros
    /\ pc' = "pos_processar"
    /\ UNCHANGED <<pdf_existe, documento, linhas, registros, saida, exit_code,
                   chamada, arg, res>>

\* 5. df = pos_processar(df); a frame built from no record has no columns,
\* and df[col_prop] raises KeyError, which nothing catches
PosProcessar ==
    /\ pc = "pos_processar"
    /\ IF df = <<>>
       THEN pc' = "KeyError" /\ exit_code' = Num(1) /\ UNCHANGED df
       ELSE pc' = "duplicatas" /\ df' = pos_processar(df) /\ UNCHANGED exit_code
    /\ UNCHANGED <<pdf_existe, documento, linhas, registros, saida,
                   chamada, arg, res>>

\* 6. df = df.drop_duplicates()
Duplicatas ==
    /\ pc = "duplicatas"
    /\ df' = drop_duplicates(df)
    /\ pc' = "ordenar"
    /\ UNCHANGED <<pdf_existe, documento, linhas, registros, saida, exit_code,
                   chamada, arg, res>>

\* 7. df = df.sort_values([...]).reset_index(drop=True)
Ordenar ==
    /\ pc = "ordenar"
    /\ df' = sort_values(df, CHAVE)
    /\ pc' = "exportar"
    /\ UNCHANGED <<pdf_existe, documento, linhas, registros, saida, exit_code,
                   chamada, arg, res>>

\* 8. and 9. the report prints; exportar writes the frame to the
\* spreadsheet and to the CSV file; main returns
Exportar ==
    /\ pc = "exportar"
    /\ saida' = <<[arquivo |-> "xlsx", dados |-> df], [arquivo |-> "csv", dados |-> df]>>
    /\ pc' = "fim"
    /\ exit_code' = Num(0)
    /\ UNCHANGED <<pdf_existe, documento, linhas, registros, df,
                   chamada, arg, res>>

Next ==
    \/ VerificarArquivo
    \/ Extrair
    \/ Parsear
    \/ MontarDataFrame
    \/ PosProcessar
    \/ Duplicatas
    \/ Ordenar
    \/ Exportar

Spec == Init /\ [][Next]_vars

\* ------------------------------------------------------------------------
\* Single functions on enumerated inputs
\* ------------------------------------------------------------------------
InitLimpar ==
    /\ PipelineParado
    /\ chamada = "nenhuma"
    /\ arg \in Celulas(AlfabetoLimpar, MaxLen)
    /\ res = Pendente

ChamarLimpar ==
    /\ chamada = "nenhuma"
    /\ pc = "parado"
    /\ chamada' = "limpar"
    /\ res' = limpar(arg)
    /\ UNCHANGED <<pc, pdf_existe, documento, linhas, registros, df, saida,
                   exit_code, arg>>

SpecLimpar == InitLimpar /\ [][ChamarLimpar]_vars

InitNumero ==
    /\ PipelineParado
    /\ chamada = "nenhuma"
    /\ arg \in Celulas(AlfabetoNumero, MaxLen)
    /\ res = Pendente

ChamarParaNumero ==
    /\ chamada = "nenhuma"
    /\ pc = "parado"
    /\ chamada' = "para_numero"
    /\ res' = para_numero(arg)
    /\ UNCHANGED <<pc, pdf_existe, documento, linhas, registros, df, saida,
                   exit_code, arg>>

SpecNumero == InitNumero /\ [][ChamarParaNumero]_vars

\* a row of 29 cells
LinhaLonga == Append(LinhaArgo, Str(<<"x">>))

CelulasVariadas ==
    {None, Str(<<>>), Str(<<"-">>), Str(<<"N", "D">>), Str(<<" ", "a", "\n", "b", " ">>), Str(<<"1", "2", ",", "3">>), Str(<<"1", ".", "2", ".", "3">>)}

\* the prefixes of row, one cell of each varied
LinhasVariadas(row) ==
    {[i \in 1..n |-> IF i = p THEN c ELSE row[i]] :
        n \in 0..Len(row), p \in 1..Len(row), c \in CelulasVariadas}

LinhasParsear ==
    {LinhaArgo, LinhaSW4, LinhaSemMarca, LinhaMarcaEmBranco, LinhaCurta, <<Str(<<"P", "i", "c", "a", "p", "e">>)>>}

InitParsear ==
    /\ PipelineParado
    /\ chamada = "nenhuma"
    /\ arg \in SeqAte(LinhasParsear, MaxLinhas) \cup {<<row>> : row \in LinhasVariadas(LinhaLonga)}
    /\ res = Pendente

\* registros = parsear(linhas), and linhas as parsear leaves it
ChamarParsear ==
    /\ chamada = "nenhuma"
    /\ pc = "parado"
    /\ chamada' = "parsear"
    /\ res' = [registros |-> parsear(arg), linhas |-> LinhasNormalizadas(arg)]
    /\ UNCHANGED <<pc, pdf_existe, documento, linhas, registros, df, saida,
                   exit_code, arg>>

SpecParsear == InitParsear /\ [][ChamarParsear]_vars

\* the record of a complete row, as parsear hands it to the frame
RegistroBase == Registro(LinhaArgo)

\* missing, the figures from -0.5 to max tenths by tenths, from 0 to max
\* halves by halves, and from 0 to max hundredths by hundredths
ValoresConsumo(max) ==
    {None} \cup {Num(d * (Scale \div 10)) : d \in (0 - 5)..max}
           \cup {Num(d * (Scale \div 2)) : d \in 0..max}
           \cup {Num(d * (Scale \div 100)) : d \in 0..max}

\* missing, and the figures from -2 to max by halves
ValoresCO2(max) ==
    {None} \cup {Num(h * (Scale \div 2)) : h \in (0 - 4)..(2 * max)}

\* one-row frames: the consumption pair of one family varied
FramesConsumo(max) ==
    {<<[RegistroBase EXCEPT ![pares[f][1]] = c, ![pares[f][2]] = e]>> :
        f \in 1..Len(pares), c \in ValoresConsumo(max), e \in ValoresConsumo(max)}

\* one-row frames: the fossil CO2 figure varied
FramesCO2(max) == {<<[RegistroBase EXCEPT ![col_co2] = v]>> : v \in ValoresCO2(max)}

\* the text t with each of its letters in lower or in upper case, every way
Caixas(t) ==
    {[i \in 1..Len(t) |-> IF m[i] THEN upper(<<t[i]>>)[1] ELSE t[i]] :
        m \in [1..Len(t) -> BOOLEAN]}

\* powertrain labels in lower case: the four of the table with and without
\* their accents, and labels outside it
RotulosPropulsao == {
    <<"c", "o", "m", "b", "u", "s", "t", "ã", "o">>, <<"c", "o", "m", "b", "u", "s", "t", "a", "o">>, <<"h", "í", "b", "r", "i", "d", "o">>, <<"h", "i", "b", "r", "i", "d", "o">>, <<"p", "l", "u", "g", "-", "i", "n">>,
    <<"e", "l", "é", "t", "r", "i", "c", "o">>, <<"e", "l", "e", "t", "r", "i", "c", "o">>, <<"e", "l", "é", "t", "r", "i", "c", "a">>, <<"p", "l", "u", "g", " ", "i", "n">>, <<"f", "l", "e", "x">>, <<"m", "h", "e", "v">> }

\* one-row frames: the powertrain label varied, missing included
FramesPropulsao ==
    {<<[RegistroBase EXCEPT ![col_prop] = v]>> :
        v \in {None} \cup {Str(t) : t \in UNION {Caixas(r) : r \in RotulosPropulsao}}}

InitPosProcessar ==
    /\ PipelineParado
    /\ chamada = "nenhuma"
    /\ \/ arg \in FramesConsumo(MaxDecimos)
       \/ arg \in FramesCO2(MaxCO2)
       \/ arg \in FramesPropulsao
    /\ res = Pendente

ChamarPosProcessar ==
    /\ chamada = "nenhuma"
    /\ pc = "parado"
    /\ chamada' = "pos_processar"
    /\ res' = pos_processar(arg)
    /\ UNCHANGED <<pc, pdf_existe, documento, linhas, registros, df, saida,
                   exit_code, arg>>

SpecPosProcessar == InitPosProcessar /\ [][ChamarPosProcessar]_vars

\* extrair on documents of every kind of row, from the state main calls it in
InitExtrair ==
    /\ pc = "extrair"
    /\ pdf_existe = TRUE
    /\ documento \in UNION {DocumentosPadrao(LinhasExtrair, n)
                                 \cup Documentos(LinhasPaginacao, n) : n \in 0..MaxLinhas}
    /\ linhas = <<>>
    /\ registros = <<>>
    /\ df = <<>>
    /\ saida = <<>>
    /\ exit_code = None
    /\ SemChamada

SpecExtrair == InitExtrair /\ [][Extrair]_vars

\* ========================================================================
\* Properties
\* ========================================================================
\* t is s without its leading and trailing whitespace
Aparado(s, t) ==
    \E a \in 0..Len(s) : \E b \in 0..(Len(s) - a) :
        /\ t = SubSeq(s, a + 1, Len(s) - b)
        /\ \A i \in 1..a : s[i] \in Whitespace
        /\ \A i \in (Len(s) - b + 1)..Len(s) : s[i] \in Whitespace
        /\ t # <<>> => t[1] \notin Whitespace /\ t[Len(t)] \notin Whitespace

\* c is s trimmed, with each embedded line break turned into a space
Limpo(s, c) ==
    \E t \in {SubSeq(s, a, b) : a \in 1..(Len(s) + 1), b \in 0..Len(s)} :
        /\ Aparado(s, t)
        /\ Len(c) = Len(t)
        /\ \A i \in 1..Len(t) : c[i] = IF t[i] = "\n" THEN " " ELSE t[i]

\* the eight placeholder tokens the specification lists
PlaceholdersDeclarados ==
    { <<>>, <<"\\">>, <<"-">>, <<"\\", "\\">>, <<"N", "D">>, <<"N", ".", "A", ".">>, <<"N", "/", "A">>, <<"-", "-">> }

\* C3 as stated: null for null and for the eight listed tokens, and for any
\* other non-empty string the trimmed, line-break-collapsed text, non-null.
C3_Original ==
    chamada = "limpar" =>
        /\ arg = None => res = None
        /\ arg # None /\ arg.v \in PlaceholdersDeclarados => res = None
        /\ arg # None /\ arg.v # <<>> /\ arg.v \notin PlaceholdersDeclarados =>
               res.k = "str" /\ Limpo(arg.v, res.v)

\* C3 amended: limpar returns null for a null input and for every string
\* whose cleaned text (trimmed, line breaks turned into spaces) is exactly
\* one of the nine tokens of the code's tuple (the eight listed ones and
\* backslash backslash apostrophe); for every other string it returns that
\* cleaned text, non-null. The comparison is of the whole cleaned text,
\* case-sensitive, never a substring match.
C3_Limpar ==
    chamada = "limpar" =>
        /\ arg = None => res = None
        /\ arg # None /\ res = None =>
               \E c \in PlaceholdersDeclarados \cup {<<"\\", "\\", "'">>} : Limpo(arg.v, c)
        /\ arg # None /\ res # None =>
               /\ res.k = "str"
               /\ Limpo(arg.v, res.v)
               /\ res.v \notin PlaceholdersDeclarados \cup {<<"\\", "\\", "'">>}

\* a placeholder inside longer text is kept, and padding around one is not
C3_Witness ==
    /\ chamada = "limpar"
    /\ arg = Str(<<" ", "N", "\n", "D">>)
    /\ res = Str(<<"N", " ", "D">>)

\* the value of the decimal text t in 1/Scale units, digit by digit
RECURSIVE SomaDigitos(_, _, _)
SomaDigitos(t, p, i) ==
    IF i > Len(t) THEN 0
    ELSE SomaDigitos(t, p, i + 1) +
         (IF ~IsDigit(t[i]) THEN 0
          ELSE IF i < p THEN DigitVal(t[i]) * Pow10(FracDigits + p - 1 - i)
          ELSE DigitVal(t[i]) * Pow10(FracDigits - (i - p)))

\* t is an optionally signed decimal numeral with at most one point
TextoDecimal(t) ==
    LET b == IF t # <<>> /\ t[1] \in {"+", "-"} THEN Tail(t) ELSE t
    IN /\ Chars(b) \subseteq Chars(DIGITS) \cup {"."}
       /\ Cardinality({i \in 1..Len(b) : b[i] = "."}) <= 1
       /\ Chars(b) \cap Chars(DIGITS) # {}

ValorDecimal(t) ==
    LET pts == {i \in 1..Len(t) : t[i] = "."}
        p == IF pts = {} THEN Len(t) + 1 ELSE CHOOSE i \in pts : TRUE
        m == SomaDigitos(t, p, 1)
    IN IF t[1] = "-" THEN 0 - m ELSE m

VirgulaPorPonto(v) == IF v = None THEN None ELSE Str(replace(v.v, ",", "."))

\* C4: para_numero never raises; it returns null when limpar of the cell is
\* null or the text is no number, otherwise the number read with every
\* comma taken as a decimal point, so a comma-decimal text and its
\* decimal-point equivalent give the same number.
C4_ParaNumero ==
    chamada = "para_numero" =>
        /\ res.k \in {"none", "num"}
        /\ limpar(arg) = None => res = None
        /\ res = para_numero(VirgulaPorPonto(arg))
        /\ limpar(arg) # None =>
               LET t == replace(limpar(arg).v, ",", ".")
               IN res = IF TextoDecimal(t) THEN Num(ValorDecimal(t)) ELSE None

C4_Witness ==
    /\ chamada = "para_numero"
    /\ arg = Str(<<"1", "2", ",", "3">>)
    /\ res = Num(12 * Scale + 3 * (Scale \div 10))
    /\ para_numero(Str(<<"1", "2", ".", "3">>)) = res

\* ------------------------------------------------------------------------
Range(seq) == {seq[i] : i \in 1..Len(seq)}

\* the <<page, table, row>> positions of a document
Posicoes(doc) ==
    UNION {UNION {{<<p, t, r>> : r \in 1..Len(doc[p][t])} : t \in 1..Len(doc[p])} :
              p \in 1..Len(doc)}

\* position a comes before position b: page, then table, then row
Antes(a, b) ==
    \/ a[1] < b[1]
    \/ a[1] = b[1] /\ a[2] < b[2]
    \/ a[1] = b[1] /\ a[2] = b[2] /\ a[3] < b[3]

LinhaEm(doc, q) == doc[q[1]][q[2]][q[3]]

\* the three conditions of a kept row
Mantida(row) == Len(row) >= 25 /\ ~eh_cabecalho(row) /\ eh_veiculo(row)

\* the first cell is a category name and some cell mentions "categoria"
CategoriaComCabecalho(row) ==
    /\ row # <<>>
    /\ Truthy(row[1])
    /\ lower(strip(row[1].v)) \in Range(CATEGORIAS)
    /\ \E i \in 1..Len(row) : Truthy(row[i]) /\ Contains(<<"c", "a", "t", "e", "g", "o", "r", "i", "a">>, lower(row[i].v))

\* C1: extrair returns exactly the rows with at least 25 cells that are no
\* header and are a vehicle row, in page, table and row order, nothing added
\* or reordered; a row with a category name in its first cell and the
\* keyword "categoria" in some cell is left out.
C1_Extrair ==
    pc = "parsear" =>
        LET K == {q \in Posicoes(documento) : Mantida(LinhaEm(documento, q))}
        IN /\ Len(linhas) = Cardinality(K)
           /\ \A q \in K :
                  linhas[1 + Cardinality({x \in K : Antes(x, q)})] = LinhaEm(documento, q)
           /\ \A q \in Posicoes(documento) :
                  CategoriaComCabecalho(LinhaEm(documento, q)) =>
                      LinhaEm(documento, q) \notin Range(linhas)

C1_Witness ==
    /\ pc = "parsear"
    /\ documento = Documento(<<LinhaSW4, LinhaCategoriaComCabecalho, LinhaArgo>>,
                             CortesPadrao(3))
    /\ Len(documento) = 2
    /\ linhas = <<LinhaSW4, LinhaArgo>>

\* C2: when the input path does not exist main ends with exit code 1 before
\* the document is opened: no extraction, parsing, post-processing or export
\* step happens and nothing is written; and a run that is at or past
\* extraction, or has written output, found the file.
C2_ArquivoAusente ==
    /\ ~pdf_existe =>
           /\ pc \in {"inicio", "fim"}
           /\ pc = "fim" => exit_code = Num(1)
           /\ linhas = <<>> /\ registros = <<>> /\ df = <<>> /\ saida = <<>>
    /\ (pc \notin {"inicio", "fim"} \/ saida # <<>> \/ exit_code = Num(0)) => pdf_existe

C2_Witness ==
    /\ ~pdf_existe
    /\ pc = "fim"
    /\ exit_code = Num(1)
    /\ saida = <<>>

\* the 28 field names of the schema
NomesDoEsquema == {COLUNAS_PDF[idx] : idx \in 0..27}

\* the rows of rows that parsear turns into records
ComMarca(rows) == {i \in 1..Len(rows) : Len(rows[i]) >= 2 /\ limpar(rows[i][2]) # None}

\* the place in parsear's result of the record of row i
Lugar(rows, i) == Cardinality({j \in ComMarca(rows) : j <= i})

\* C5: for every raw row shorter than the 28 columns (rows of 25 to 27
\* cells among them) parsear pads the row with nulls and its record has
\* exactly the 28 field names as keys: a field whose position is in the row
\* holds the cleaned cell, or the coerced one at the 14 numeric positions,
\* and a field past the row's length holds null.
C5_Parsear ==
    chamada = "parsear" =>
        /\ Cardinality(NomesDoEsquema) = 28 /\ Cardinality(COLUNAS_NUMERICAS) = 14
        /\ Len(res.linhas) = Len(arg)
        /\ \A i \in 1..Len(arg) :
               /\ Len(res.linhas[i]) = (IF Len(arg[i]) < 28 THEN 28 ELSE Len(arg[i]))
               /\ \A j \in 1..Len(res.linhas[i]) :
                      res.linhas[i][j] = IF j <= Len(arg[i]) THEN arg[i][j] ELSE None
        /\ Len(res.registros) = Cardinality(ComMarca(arg))
        /\ \A i \in ComMarca(arg) :
               LET registro == res.registros[Lugar(arg, i)]
               IN /\ DOMAIN registro = NomesDoEsquema
                  /\ \A idx \in 0..27 :
                         registro[COLUNAS_PDF[idx]] =
                             IF idx + 1 > Len(arg[i]) THEN None
                             ELSE IF idx \in COLUNAS_NUMERICAS
                                  THEN para_numero(arg[i][idx + 1])
                                  ELSE limpar(arg[i][idx + 1])

C5_Witness ==
    /\ chamada = "parsear"
    /\ arg = <<LinhaSW4>>
    /\ Len(arg[1]) = 25
    /\ Len(res.registros) = 1
    /\ res.registros[1][COLUNAS_PDF[24]] = None
    /\ res.registros[1][COLUNAS_PDF[27]] = None
    /\ res.registros[1][COLUNAS_PDF[19]] = Num(14 * Scale)
    /\ res.registros[1][COLUNAS_PDF[0]] = Str(<<"U", "t", "i", "l", "i", "t", "á", "r", "i", "o", " ", "E", "s", "p", "o", "r", "t", "i", "v", "o", " ", "G", "r", "a", "n", "d", "e", " ", "4", "x", "4">>)

\* C6: parsear emits a record for a row if and only if the row's brand cell
\* is non-null after cleaning, the records in the order of their rows; so
\* every record of parsear's result and of the final table has a brand.
C6_Marca ==
    pc \in {"dataframe", "pos_processar", "duplicatas", "ordenar", "exportar",
            "KeyError", "fim"} =>
        /\ Len(registros) = Cardinality(ComMarca(linhas))
        /\ \A i \in ComMarca(linhas) :
               /\ registros[Lugar(linhas, i)]["Marca"] = limpar(linhas[i][2])
               /\ registros[Lugar(linhas, i)]["Modelo"] = limpar(linhas[i][3])
               /\ registros[Lugar(linhas, i)]["Versão"] = limpar(linhas[i][4])
        /\ \A i \in 1..Len(registros) : registros[i]["Marca"] # None
        /\ \A i \in 1..Len(df) : df[i]["Marca"] # None
        /\ \A s \in 1..Len(saida) :
               \A i \in 1..Len(saida[s].dados) : saida[s].dados[i]["Marca"] # None

C6_Witness ==
    /\ pc = "fim"
    /\ Len(linhas) = 3
    /\ linhas[2] = LinhaSemMarca
    /\ Len(registros) = 2
    /\ Len(saida) = 2
    /\ Len(saida[1].dados) = 2

\* (city, highway, combined) column names of the three fuel families
Familias == {
    <<"Consumo Gasolina ou Diesel - Cidade (km/l)",
      "Consumo Gasolina ou Diesel - Estrada (km/l)",
      "Consumo Gasolina ou Diesel - Combinado (km/l)">>,
    <<"Consumo Etanol - Cidade (km/l)", "Consumo Etanol - Estrada (km/l)",
      "Consumo Etanol - Combinado (km/l)">>,
    <<"Consumo Elétrico - Cidade (km/le)", "Consumo Elétrico - Estrada (km/le)",
      "Consumo Elétrico - Combinado (km/le)">> }

Abs(n) == IF n < 0 THEN 0 - n ELSE n

\* comb is 0.55 cid + 0.45 est rounded to 2 decimals: a whole number of
\* hundredths, none nearer to the sum
Combinado(cid, est, comb) ==
    /\ comb.k = "num"
    /\ comb.v % (Scale \div 100) = 0
    /\ 2 * Abs(100 * comb.v - (55 * cid.v + 45 * est.v)) <= Scale

\* C7: in each of the three fuel families and every record the combined
\* consumption is null when the city or the highway value is null, and
\* otherwise 0.55 city + 0.45 highway rounded to 2 decimals: 10.0 and 12.0
\* give 10.9, 14.0 and 16.0 give 14.90.
C7_ConsumoCombinado ==
    chamada = "pos_processar" =>
        /\ Len(res) = Len(arg)
        /\ \A i \in 1..Len(arg) : \A f \in Familias :
               LET cid == arg[i][f[1]]
                   est == arg[i][f[2]]
                   comb == res[i][f[3]]
               IN /\ res[i][f[1]] = cid /\ res[i][f[2]] = est
                  /\ cid = None \/ est = None => comb = None
                  /\ cid # None /\ est # None => Combinado(cid, est, comb)
                  /\ cid = Num(10 * Scale) /\ est = Num(12 * Scale) =>
                         comb = Num(109 * (Scale \div 10))
                  /\ cid = Num(14 * Scale) /\ est = Num(16 * Scale) =>
                         comb = Num(149 * (Scale \div 10))

C7_Witness ==
    /\ chamada = "pos_processar"
    /\ arg[1]["Consumo Etanol - Cidade (km/l)"] = Num(10 * Scale)
    /\ arg[1]["Consumo Etanol - Estrada (km/l)"] = Num(12 * Scale)
    /\ res[1]["Consumo Etanol - Combinado (km/l)"] = Num(109 * (Scale \div 10))

\* the frame main hands to drop_duplicates
AntesDasDuplicatas == pos_processar(registros)

\* the records differ in exactly one column
DiferemEmUmCampo(r1, r2) ==
    Cardinality({c \in DOMAIN r1 : r1[c] # r2[c]}) = 1

\* C8: after the deduplication step the table never holds two records equal
\* in every column: identical records collapse to one, and records that
\* differ in a field after post-processing all remain.
C8_Duplicatas ==
    pc \in {"ordenar", "exportar", "fim"} /\ pdf_existe =>
        /\ \A i, j \in 1..Len(df) : i # j => df[i] # df[j]
        /\ Range(df) = Range(AntesDasDuplicatas)

C8_Witness ==
    /\ pc = "ordenar"
    /\ Len(AntesDasDuplicatas) = 3
    /\ AntesDasDuplicatas[1] = AntesDasDuplicatas[3]
    /\ DiferemEmUmCampo(AntesDasDuplicatas[1], AntesDasDuplicatas[2])
    /\ df = <<AntesDasDuplicatas[1], AntesDasDuplicatas[2]>>

\* s comes strictly before t as Python compares str: at the first place
\* where they differ s has ended or has the smaller code point
TextoAntes(s, t) ==
    \E i \in 1..Len(t) :
        /\ \A j \in 1..(i - 1) : j <= Len(s) /\ s[j] = t[j]
        /\ i > Len(s) \/ (i <= Len(s) /\ Ord(s[i]) < Ord(t[i]))

\* a text before another; a missing value after every text
CampoAntes(a, b) == a # None /\ (b = None \/ TextoAntes(a.v, b.v))

ChaveDeOrdenacao == <<"Categoria", "Marca", "Modelo", "Versão">>

\* the key of r1 is less than or equal to the key of r2, lexicographically
ChaveMenorOuIgual(r1, r2) ==
    \E j \in 1..5 :
        /\ \A i \in 1..(j - 1) : r1[ChaveDeOrdenacao[i]] = r2[ChaveDeOrdenacao[i]]
        /\ j = 5 \/ CampoAntes(r1[ChaveDeOrdenacao[j]], r2[ChaveDeOrdenacao[j]])

Vezes(seq, x) == Cardinality({i \in 1..Len(seq) : seq[i] = x})

\* C9: the table handed to exportar is sorted ascending by (Categoria,
\* Marca, Modelo, Versão), each record's key at most the next one's (a
\* missing value after every text), and sorting, done after deduplication,
\* neither adds nor removes records.
C9_Ordenada ==
    pc \in {"exportar", "fim"} /\ pdf_existe =>
        /\ \A i \in 1..(Len(df) - 1) : ChaveMenorOuIgual(df[i], df[i + 1])
        /\ Len(df) = Len(drop_duplicates(AntesDasDuplicatas))
        /\ \A r \in Range(AntesDasDuplicatas) \cup Range(df) :
               Vezes(df, r) = Vezes(drop_duplicates(AntesDasDuplicatas), r)
        /\ \A s \in 1..Len(saida) : saida[s].dados = df

C9_Witness ==
    /\ pc = "fim"
    /\ Len(registros) = 3
    /\ registros[1]["Versão"] = None /\ registros[1]["Modelo"] = Str(<<"A", "r", "g", "o">>)
    /\ registros[2]["Categoria"] = Str(<<"c", "o", "m", "p", "a", "c", "t", "o">>)
    /\ registros[3]["Versão"] = Str(<<"1", ".", "0">>)
    /\ Len(saida) = 2
    /\ saida[1].dados[1]["Versão"] = Str(<<"1", ".", "0">>)
    /\ saida[1].dados[2]["Versão"] = None
    /\ saida[1].dados[3]["Categoria"] = Str(<<"c", "o", "m", "p", "a", "c", "t", "o">>)

\* the bucket the claim gives a CO2 figure of v / Scale g/km
FaixaDeclarada(v) ==
    IF v = None \/ v.v < 0 THEN None
    ELSE IF v.v <= 50 * Scale THEN Str(<<"0", "-", "5", "0">>)
    ELSE IF v.v <= 100 * Scale THEN Str(<<"5", "1", "-", "1", "0", "0">>)
    ELSE IF v.v <= 150 * Scale THEN Str(<<"1", "0", "1", "-", "1", "5", "0">>)
    ELSE IF v.v <= 200 * Scale THEN Str(<<"1", "5", "1", "-", "2", "0", "0">>)
    ELSE IF v.v <= 250 * Scale THEN Str(<<"2", "0", "1", "-", "2", "5", "0">>)
    ELSE Str(<<"2", "5", "0", "+">>)

\* C10: the CO2 bucket depends on the fossil gasoline/diesel CO2 value v
\* only: "0-50" for 0 <= v <= 50, "51-100" for 50 < v <= 100, and so on to
\* "201-250" for 200 < v <= 250, and "250+" for every v > 250 with no upper
\* limit; it is unset exactly when v is null or negative.
C10_FaixaCO2 ==
    chamada = "pos_processar" =>
        \A i \in 1..Len(arg) :
            res[i]["Faixa CO2 Gasolina/Diesel (g/km)"] =
                FaixaDeclarada(arg[i]["Emissões GEE - CO2 Fóssil Gasolina ou Diesel (g/km)"])

\* the four powertrain labels: the canonical label and its lower-case forms,
\* with and without accents
FormasDeclaradas == <<
    <<<<"C", "o", "m", "b", "u", "s", "t", "ã", "o">>, {<<"c", "o", "m", "b", "u", "s", "t", "ã", "o">>, <<"c", "o", "m", "b", "u", "s", "t", "a", "o">>}>>,
    <<<<"H", "í", "b", "r", "i", "d", "o">>, {<<"h", "í", "b", "r", "i", "d", "o">>, <<"h", "i", "b", "r", "i", "d", "o">>}>>,
    <<<<"P", "l", "u", "g", "-", "i", "n">>, {<<"p", "l", "u", "g", "-", "i", "n">>}>>,
    <<<<"E", "l", "é", "t", "r", "i", "c", "o">>, {<<"e", "l", "é", "t", "r", "i", "c", "o">>, <<"e", "l", "e", "t", "r", "i", "c", "o">>}>> >>

\* the label the claim gives a non-null raw label x
RotuloDeclarado(x) ==
    LET achados == {i \in 1..Len(FormasDeclaradas) :
                       lower(x.v) \in FormasDeclaradas[i][2]}
    IN IF achados = {} THEN x
       ELSE Str(FormasDeclaradas[CHOOSE i \in achados : TRUE][1])

\* C11: powertrain standardization maps every raw label whose lower-case
\* form is combustão, híbrido, plug-in or elétrico, written with or without
\* accents and in any letter case, to Combustão, Híbrido, Plug-in or
\* Elétrico; every other non-null label is left exactly as it was, and
\* standardizing an already standardized label changes nothing.
C11_Propulsao ==
    chamada = "pos_processar" =>
        \A i \in 1..Len(arg) :
            LET x == arg[i][col_prop]
                y == res[i][col_prop]
            IN x # None =>
                   /\ y = RotuloDeclarado(x)
                   /\ PropulsaoPadronizada(y) = y

====
